---- MODULE Spec2Model ----
(***************************************************************************)
(* The node-graph pane of bevy_node_graph/src/lib.rs as a state machine.   *)
(*                                                                         *)
(* State: the ECS world as far as the plugin's systems and observers read  *)
(* or write it (NodeGraph components, the pane hierarchy, the UI nodes'    *)
(* computed layout, the Active marker, the viewport cameras, the image     *)
(* assets, the pointer entities and the PointerInput events the system's   *)
(* EventReader has not read yet).                                          *)
(*                                                                         *)
(* Lengths are fixed-point numbers in quarters of a logical pixel          *)
(* (Scale = 4): 10 is 2.5 px.  Sizes are whole numbers of half pixels, so  *)
(* that size / 2.0 is exact, as it is in f32.                              *)
(***************************************************************************)
EXTENDS Integers, Sequences, FiniteSets, TLC

VARIABLES
    node_graph,     \* pane root -> NodeGraph component         (lib.rs 24-27)
    pane_content,   \* pane root -> its PaneContentNode descendant
    children,       \* content node -> Children (a sequence of entities)
    ui_node,        \* UI node -> [size (ComputedNode), translation (GlobalTransform)]
    changed,        \* content nodes whose ComputedNode or GlobalTransform
                    \* changed since update_render_target_size last ran
    ui_image,       \* image node -> UiImage.texture (an image handle)
    active,         \* image nodes that carry the Active marker  (lib.rs 77-78)
    cameras,        \* camera entity -> [target, viewport_override]
    images,         \* image handle -> texture size (Extent3d)
    pointer_input,  \* PointerInput events not yet read by the EventReader
    pointers,       \* pointer entities: sequence of [id, location]
    next_entity,    \* next entity id the world hands out
    next_image,     \* next image handle Assets<Image> hands out
    crashed         \* an unwrap() failed: the app has panicked

vars == <<node_graph, pane_content, children, ui_node, changed, ui_image, active,
          cameras, images, pointer_input, pointers, next_entity, next_image, crashed>>

----------------------------------------------------------------------------
(* Bounds of the model *)

\* Panes created over a run (each creation spawns fresh entities).
MaxPanes == 2

\* PointerInput events the input systems may have queued, unread, at a time.
MaxEvents == 2

----------------------------------------------------------------------------
(* Values *)

\* Entity::PLACEHOLDER: an id no spawned entity has (entity ids start at 1).
PLACEHOLDER == 0

\* Fixed-point scale: quarters of a logical pixel.
Scale == 4

None == <<>>
Some(x) == <<x>>

Window(w) == [kind |-> "Window", id |-> w]
Image(h) == [kind |-> "Image", id |-> h]

\* A texture no node-graph pane owns (another pane's render target).
ForeignImage == 0

\* The PointerInput events the picking input systems and other plugins send:
\* the mouse moved in the window, a touch that has no pointer entity pressed
\* in the window, and an event another pane has already sent to its texture.
InputEvents ==
    { [pointer_id |-> "Mouse", action |-> "Moved",
       location |-> [target |-> Window("primary"), position |-> <<40, 24>>]],
      [pointer_id |-> "Touch1", action |-> "Pressed",
       location |-> [target |-> Window("primary"), position |-> <<8, 50>>]],
      [pointer_id |-> "Mouse", action |-> "Moved",
       location |-> [target |-> Image(ForeignImage), position |-> <<40, 24>>]] }

\* The layouts ui_layout_system may give a pane's content node: a zero-sized
\* node at the origin, and a 2.5 px x 4 px node centred at (5 px, 3 px).
Layouts ==
    { [size |-> <<0, 0>>, translation |-> <<0, 0>>],
      [size |-> <<10, 16>>, translation |-> <<20, 12>>] }

\* ComputedNode::default() and GlobalTransform::default() of a spawned node.
DefaultNode == [size |-> <<0, 0>>, translation |-> <<0, 0>>]

\* Image::default(): a 1 x 1 texture.
DefaultImage == [width |-> 1, height |-> 1, depth_or_array_layers |-> 1]

----------------------------------------------------------------------------
(* Pure helpers *)

VSub(a, b) == <<a[1] - b[1], a[2] - b[2]>>
VAdd(a, b) == <<a[1] + b[1], a[2] + b[2]>>

\* Rect::from_center_size(origin, size): half_size = size / 2.
from_center_size(origin, size) ==
    LET half_size == <<size[1] \div 2, size[2] \div 2>>
    IN  [min |-> VSub(origin, half_size), max |-> VAdd(origin, half_size)]

\* `x as u32` of an f32: truncation toward zero, negative values saturate at 0.
\* (The saturation at u32::MAX is out of reach: a node's size in pixels is far
\* below 2^32.)
as_u32(x) == IF x <= 0 THEN 0 ELSE x \div Scale

u32_max(a, b) == IF a >= b THEN a ELSE b

Restrict(f, S) == [x \in S |-> f[x]]

\* All orders in which a query may iterate over the set S.
Orders(S) ==
    { s \in [1..Cardinality(S) -> S] : \A i, j \in 1..Cardinality(S) : s[i] = s[j] => i = j }

----------------------------------------------------------------------------
(* Initial state: the app after the plugin is built, no node-graph pane open *)

Init ==
    /\ node_graph = <<>>
    /\ pane_content = <<>>
    /\ children = <<>>
    /\ ui_node = <<>>
    /\ changed = {}
    /\ ui_image = <<>>
    /\ active = {}
    /\ cameras = <<>>
    /\ images = <<>>
    /\ pointer_input = <<>>
    /\ pointers = << [id |-> "Mouse", location |-> None],
                     [id |-> "Touch0", location |-> None] >>
    /\ next_entity = 1
    /\ next_image = 1
    /\ crashed = FALSE

----------------------------------------------------------------------------
(* Pane creation: the OnAdd observer, lib.rs 150-229 *)

\* NodeGraph::default(), lib.rs 29-35.
NodeGraph_default == [camera |-> PLACEHOLDER]

\* The camera bundle spawned at lib.rs 198-212: it renders into image_handle.
camera_bundle(image_handle) ==
    [target |-> Image(image_handle), viewport_override |-> None]

\* A slip: the spawned camera's id is never stored in the pane's NodeGraph.
set_camera_forgotten(viewport, camera_id) == viewport

\* lib.rs 228: query.get_mut(pane_root).unwrap().camera = camera_id.
set_camera(viewport, camera_id) == [viewport EXCEPT !.camera = camera_id]

\* The observer body, run on `world`: the hierarchy, UI nodes, NodeGraph
\* components and entity counter as they are when NodeGraph has just been
\* added to pane_root.  The spawns queued on `commands` are applied when the
\* observer returns.
on_pane_creation(pane_root, world) ==
    LET content_node == world.pane_content[pane_root]    \* lib.rs 162-165
        image_handle == next_image                         \* lib.rs 172
        image_id == world.next_entity                      \* lib.rs 174-196
        camera_id == world.next_entity + 1                 \* lib.rs 198-212
        kids == IF content_node \in DOMAIN world.children
                THEN world.children[content_node] ELSE <<>>
    IN  /\ images' = images @@ (image_handle :> DefaultImage)
        /\ next_image' = next_image + 1
        /\ ui_image' = ui_image @@ (image_id :> image_handle)
        /\ ui_node' = world.ui_node @@ (image_id :> DefaultNode)
        /\ children' = (content_node :> Append(kids, image_id)) @@ world.children
        /\ cameras' = cameras @@ (camera_id :> camera_bundle(image_handle))
        /\ next_entity' = world.next_entity + 2
        /\ node_graph' = [world.node_graph EXCEPT
                            ![pane_root] = set_camera(@, camera_id)]

\* The "Node Graph" PaneRegistry callback (lib.rs 69-73) run on a pane the
\* pane layout has just spawned: a root with one content node below it, which
\* has no children yet.  Inserting NodeGraph::default() triggers
\* on_pane_creation at once.
spawn_node_graph_pane ==
    /\ ~crashed
    /\ next_image <= MaxPanes
    /\ LET pane_root == next_entity
           content_node == next_entity + 1
           world == [pane_content |-> pane_content @@ (pane_root :> content_node),
                     children |-> children,
                     ui_node |-> ui_node @@ (content_node :> DefaultNode),
                     node_graph |-> node_graph @@ (pane_root :> NodeGraph_default),
                     next_entity |-> next_entity + 2]
       IN  /\ pane_content' = world.pane_content
           /\ changed' = changed \cup {content_node}
           /\ on_pane_creation(pane_root, world)
    /\ UNCHANGED <<active, pointer_input, pointers, crashed>>

----------------------------------------------------------------------------
(* Pane removal: the OnRemove observer, lib.rs 58-67 *)

Range(s) == { s[i] : i \in DOMAIN s }

\* A slip: the observer despawns nothing.
on_remove_nothing(pane_root) == {}

\* The entities the observer despawns: the camera recorded in the pane's
\* NodeGraph, read while the component is still there (lib.rs 63-65).
on_remove(pane_root) == { node_graph[pane_root].camera }

\* The pane layout despawns a pane recursively: its root, its content node and
\* the content node's children.  Removing the root's NodeGraph triggers
\* on_remove.  An image asset is freed with the last handle to it.
despawn_pane(pane_root) ==
    /\ ~crashed
    /\ pane_root \in DOMAIN node_graph
    /\ LET content_node == pane_content[pane_root]
           image_ids == Range(children[content_node])
           cameras_left == Restrict(cameras, DOMAIN cameras \ on_remove(pane_root))
           ui_image_left == Restrict(ui_image, DOMAIN ui_image \ image_ids)
           handles == { ui_image_left[i] : i \in DOMAIN ui_image_left }
                        \cup { cameras_left[c].target.id : c \in DOMAIN cameras_left }
       IN  /\ cameras' = cameras_left
           /\ ui_image' = ui_image_left
           /\ images' = Restrict(images, DOMAIN images \cap handles)
           /\ node_graph' = Restrict(node_graph, DOMAIN node_graph \ {pane_root})
           /\ pane_content' = Restrict(pane_content, DOMAIN pane_content \ {pane_root})
           /\ children' = Restrict(children, DOMAIN children \ {content_node})
           /\ ui_node' = Restrict(ui_node, DOMAIN ui_node \ ({content_node} \cup image_ids))
           /\ changed' = changed \ {content_node}
           /\ active' = active \ image_ids
    /\ UNCHANGED <<pointer_input, pointers, next_entity, next_image, crashed>>

----------------------------------------------------------------------------
(* Layout and the Active marker *)

\* ui_layout_system gives the pane's content node a new size and position.
\* The image node is absolutely positioned with all four insets zero
\* (lib.rs 180-187), so it fills the content node.
ui_layout(pane_root, layout) ==
    /\ ~crashed
    /\ pane_root \in DOMAIN node_graph
    /\ LET content_node == pane_content[pane_root]
           image_ids == Range(children[content_node])
       IN  /\ ui_node[content_node] # layout
           /\ ui_node' = [n \in DOMAIN ui_node |->
                            IF n = content_node \/ n \in image_ids THEN layout ELSE ui_node[n]]
           /\ changed' = changed \cup {content_node}
    /\ UNCHANGED <<node_graph, pane_content, children, ui_image, active, cameras,
                   images, pointer_input, pointers, next_entity, next_image, crashed>>

\* The Pointer<Over> observer of the image node, lib.rs 189-191.
pointer_over(image_id) ==
    /\ ~crashed
    /\ image_id \in DOMAIN ui_image
    /\ image_id \notin active
    /\ active' = active \cup {image_id}
    /\ UNCHANGED <<node_graph, pane_content, children, ui_node, changed, ui_image, cameras,
                   images, pointer_input, pointers, next_entity, next_image, crashed>>

\* The Pointer<Out> observer of the image node, lib.rs 192-194.
pointer_out(image_id) ==
    /\ ~crashed
    /\ image_id \in active
    /\ active' = active \ {image_id}
    /\ UNCHANGED <<node_graph, pane_content, children, ui_node, changed, ui_image, cameras,
                   images, pointer_input, pointers, next_entity, next_image, crashed>>

----------------------------------------------------------------------------
(* update_render_target_size, lib.rs 231-269 *)

\* A slip: the texture size is not clamped to at least one pixel.
extent_unclamped(content_node_size) ==
    [width |-> as_u32(content_node_size[1]),
     height |-> as_u32(content_node_size[2]),
     depth_or_array_layers |-> 1]

\* lib.rs 262-266: the texture size for a content node of the given size.
extent(content_node_size) ==
    [width |-> u32_max(1, as_u32(content_node_size[1])),
     height |-> u32_max(1, as_u32(content_node_size[2])),
     depth_or_array_layers |-> 1]

\* One iteration of the loop at lib.rs 242-268, on world = [cameras, images, crashed].
resize_pane(world, pane_root) ==
    LET viewport == node_graph[pane_root]
        content_node_id == pane_content[pane_root]
    IN  IF content_node_id \notin changed
        THEN world    \* pos_query.get fails: nothing changed, continue
        ELSE IF viewport.camera \notin DOMAIN world.cameras
        THEN [world EXCEPT !.crashed = TRUE]    \* camera_query.get_mut(..).unwrap()
        ELSE
            LET computed_node == ui_node[content_node_id]
                rect == from_center_size(computed_node.translation, computed_node.size)
                image_handle == world.cameras[viewport.camera].target.id
            IN  [world EXCEPT
                    !.cameras[viewport.camera].viewport_override = Some(rect),
                    !.images[image_handle] = extent(computed_node.size)]

RECURSIVE resize_loop(_, _, _)
resize_loop(world, order, i) ==
    IF i > Len(order) \/ world.crashed THEN world
    ELSE resize_loop(resize_pane(world, order[i]), order, i + 1)

\* The system runs once; afterwards no change is newer than its last run.
update_render_target_size ==
    /\ ~crashed
    /\ \E order \in Orders(DOMAIN node_graph) :
         LET world == resize_loop([cameras |-> cameras, images |-> images, crashed |-> FALSE],
                                  order, 1)
         IN  /\ cameras' = world.cameras
             /\ images' = world.images
             /\ crashed' = world.crashed
    /\ changed' = {}
    /\ UNCHANGED <<node_graph, pane_content, children, ui_node, ui_image, active,
                   pointer_input, pointers, next_entity, next_image>>

----------------------------------------------------------------------------
(* render_target_picking_passthrough, lib.rs 80-130 *)

\* A slip: the events sent to render targets are not ignored.
is_window_any(target) == TRUE

\* lib.rs 91: matches!(target, NormalizedRenderTarget::Window(..)).
is_window(target) == target.kind = "Window"

\* A slip: node_query lacks the With<Active> filter.
node_query_matches_any(image_id) == image_id \in DOMAIN ui_image

\* lib.rs 85 and 102: node_query (With<Active>) matches the image node.
node_query_matches(image_id) == image_id \in active

\* A slip: the position is left in window coordinates.
relocate_window_position(location, node_rect, texture) ==
    [position |-> location.position, target |-> Image(texture)]

\* lib.rs 109-112: the event's location in the render target of the image node.
relocate(location, node_rect, texture) ==
    [position |-> VSub(location.position, node_rect.min), target |-> Image(texture)]

\* A slip: the first pointer entity is taken, whatever its PointerId.
find_pointer_first(ptrs, pointer_id) == IF ptrs = <<>> THEN 0 ELSE 1

\* lib.rs 121-123: the first pointer entity with the given PointerId, 0 if none.
find_pointer(ptrs, pointer_id) ==
    IF \E k \in DOMAIN ptrs : ptrs[k].id = pointer_id
    THEN CHOOSE k \in DOMAIN ptrs :
            /\ ptrs[k].id = pointer_id
            /\ \A j \in DOMAIN ptrs : ptrs[j].id = pointer_id => k <= j
    ELSE 0

\* One iteration of the inner loop, lib.rs 94-128, on
\* world = [sent (events queued on commands), pointers].
passthrough_pane(world, event, pane_root) ==
    LET content_node_id == pane_content[pane_root]
        image_id == children[content_node_id][1]
    IN  IF ~node_query_matches(image_id)
        THEN world    \* node_query.get fails: inactive viewport, continue
        ELSE
            LET node_rect == from_center_size(ui_node[image_id].translation,
                                              ui_node[image_id].size)
                new_location == relocate(event.location, node_rect, ui_image[image_id])
                new_event == [event EXCEPT !.location = new_location]
                k == find_pointer(world.pointers, event.pointer_id)
            IN  [sent |-> Append(world.sent, new_event),
                 pointers |-> IF k = 0 THEN world.pointers
                              ELSE [world.pointers EXCEPT ![k].location = Some(new_location)]]

RECURSIVE passthrough_panes(_, _, _, _)
passthrough_panes(world, event, order, j) ==
    IF j > Len(order) THEN world
    ELSE passthrough_panes(passthrough_pane(world, event, order[j]), event, order, j + 1)

\* The outer loop, lib.rs 89-129, over the events the reader has not read.
RECURSIVE passthrough_events(_, _, _, _)
passthrough_events(world, events, order, i) ==
    IF i > Len(events) THEN world
    ELSE IF ~is_window(events[i].location.target)
    THEN passthrough_events(world, events, order, i + 1)
    ELSE passthrough_events(passthrough_panes(world, events[i], order, 1), events, order, i + 1)

\* The system runs once: it reads every unread event, and the events it
\* queued on `commands` are sent when its commands are applied; the reader
\* has not read those yet.
render_target_picking_passthrough ==
    /\ ~crashed
    /\ \E order \in Orders(DOMAIN node_graph) :
         LET world == passthrough_events([sent |-> <<>>, pointers |-> pointers],
                                         pointer_input, order, 1)
         IN  /\ pointer_input' = world.sent
             /\ pointers' = world.pointers
    /\ UNCHANGED <<node_graph, pane_content, children, ui_node, changed, ui_image, active,
                   cameras, images, next_entity, next_image, crashed>>

\* The input systems, or another plugin, send a PointerInput event.
send_pointer_input(event) ==
    /\ ~crashed
    /\ Len(pointer_input) < MaxEvents
    /\ pointer_input' = Append(pointer_input, event)
    /\ UNCHANGED <<node_graph, pane_content, children, ui_node, changed, ui_image, active,
                   cameras, images, pointers, next_entity, next_image, crashed>>

----------------------------------------------------------------------------
(* The app *)

Next ==
    \/ spawn_node_graph_pane
    \/ \E pane_root \in DOMAIN node_graph : despawn_pane(pane_root)
    \/ \E pane_root \in DOMAIN node_graph, layout \in Layouts : ui_layout(pane_root, layout)
    \/ \E image_id \in DOMAIN ui_image : pointer_over(image_id)
    \/ \E image_id \in DOMAIN ui_image : pointer_out(image_id)
    \/ update_render_target_size
    \/ \E event \in InputEvents : send_pointer_input(event)
    \/ render_target_picking_passthrough

Spec == Init /\ [][Next]_vars

\* The pane lifecycle and the render-target size alone.  The steps left out
\* (the pointer events and the passthrough) write only pointer_input and
\* pointers, which no step kept here reads.
NextPanes ==
    \/ spawn_node_graph_pane
    \/ \E pane_root \in DOMAIN node_graph : despawn_pane(pane_root)
    \/ \E pane_root \in DOMAIN node_graph, layout \in Layouts : ui_layout(pane_root, layout)
    \/ \E image_id \in DOMAIN ui_image : pointer_over(image_id)
    \/ \E image_id \in DOMAIN ui_image : pointer_out(image_id)
    \/ update_render_target_size

SpecPanes == Init /\ [][NextPanes]_vars

\* The pane lifecycle and the pointer passthrough alone.  The step left out,
\* update_render_target_size, writes only cameras, images, changed and
\* crashed, which the passthrough does not read.
NextPointer ==
    \/ spawn_node_graph_pane
    \/ \E pane_root \in DOMAIN node_graph : despawn_pane(pane_root)
    \/ \E pane_root \in DOMAIN node_graph, layout \in Layouts : ui_layout(pane_root, layout)
    \/ \E image_id \in DOMAIN ui_image : pointer_over(image_id)
    \/ \E image_id \in DOMAIN ui_image : pointer_out(image_id)
    \/ \E event \in InputEvents : send_pointer_input(event)
    \/ render_target_picking_passthrough

SpecPointer == Init /\ [][NextPointer]_vars

----------------------------------------------------------------------------
(* Properties of the pane lifecycle and of the render-target size *)

\* The image node of a pane: the first child of its content node (lib.rs 100).
image_of(pane_root) == children[pane_content[pane_root]][1]

\* C2: every pane that carries NodeGraph has exactly one UI image node below
\* its content node and a live camera recorded in NodeGraph.camera, which is
\* not the placeholder entity; that camera, and no other, renders into the
\* texture the pane's image node displays.
C2_PaneHasImageAndCamera ==
    \A pane_root \in DOMAIN node_graph :
        LET viewport == node_graph[pane_root]
            kids == children[pane_content[pane_root]]
        IN  /\ viewport.camera # PLACEHOLDER
            /\ viewport.camera \in DOMAIN cameras
            /\ Len(kids) = 1
            /\ kids[1] \in DOMAIN ui_image
            /\ ui_image[kids[1]] \in DOMAIN images
            /\ cameras[viewport.camera].target = Image(ui_image[kids[1]])
            /\ { c \in DOMAIN cameras : cameras[c].target = Image(ui_image[kids[1]]) }
                   = { viewport.camera }

\* Two panes have been created and both are open.
C2_Witness ==
    /\ Cardinality(DOMAIN node_graph) = 2
    /\ \A pane_root \in DOMAIN node_graph :
          cameras[node_graph[pane_root].camera].target = Image(ui_image[image_of(pane_root)])

\* C3: the live viewport cameras are exactly the cameras the open panes
\* record, and no two open panes record the same camera.
C3_CamerasMatchPanes ==
    /\ DOMAIN cameras = { node_graph[pane_root].camera : pane_root \in DOMAIN node_graph }
    /\ \A p, q \in DOMAIN node_graph :
          node_graph[p].camera = node_graph[q].camera => p = q

\* Two panes have been created, one of them has been removed since, and the
\* camera of the other is the only camera left.
C3_Witness ==
    /\ next_image = 3
    /\ Cardinality(DOMAIN node_graph) = 1
    /\ Cardinality(DOMAIN cameras) = 1

\* C4: once update_render_target_size has run on the latest layout of a
\* pane's content node (the node is not marked changed), the pane's texture is
\* max(1, trunc(width)) x max(1, trunc(height)) x 1 for the content node's
\* size in pixels, and the camera's viewport_override is the content node's
\* rectangle; every texture is at least 1 x 1 at all times.
C4_TextureFollowsLayout ==
    /\ \A h \in DOMAIN images : images[h].width >= 1 /\ images[h].height >= 1
    /\ \A pane_root \in DOMAIN node_graph :
          LET content_node == pane_content[pane_root]
              size == ui_node[content_node].size
              centre == ui_node[content_node].translation
              camera == cameras[node_graph[pane_root].camera]
              texture == images[camera.target.id]
              \* n = max(1, trunc(x / Scale)) for a length x >= 0
              Fits(n, x) == IF x < Scale THEN n = 1
                            ELSE n * Scale <= x /\ x < (n + 1) * Scale
          IN  content_node \notin changed =>
                /\ Fits(texture.width, size[1])
                /\ Fits(texture.height, size[2])
                /\ texture.depth_or_array_layers = 1
                /\ Len(camera.viewport_override) = 1
                /\ \A k \in 1..2 :
                      /\ 2 * camera.viewport_override[1].min[k] = 2 * centre[k] - size[k]
                      /\ 2 * camera.viewport_override[1].max[k] = 2 * centre[k] + size[k]

\* Two open panes have been resized: one with a zero-sized content node
\* (texture 1 x 1), one with a 2.5 px x 4 px content node (texture 2 x 4).
C4_Witness ==
    \E p, q \in DOMAIN node_graph :
        /\ pane_content[p] \notin changed
        /\ pane_content[q] \notin changed
        /\ ui_node[pane_content[p]].size = <<0, 0>>
        /\ cameras[node_graph[p].camera].viewport_override # None
        /\ images[ui_image[image_of(p)]] = [width |-> 1, height |-> 1, depth_or_array_layers |-> 1]
        /\ ui_node[pane_content[q]].size = <<10, 16>>
        /\ images[ui_image[image_of(q)]] = [width |-> 2, height |-> 4, depth_or_array_layers |-> 1]

----------------------------------------------------------------------------
(* Properties of the pointer passthrough *)

\* The step is a run of render_target_picking_passthrough that had events to
\* read.  Such a run replaces the unread events by the events it sent, none
\* of which targets a window; sending an event appends one to the unread
\* events; no other step changes them.
EventSent ==
    /\ Len(pointer_input') = Len(pointer_input) + 1
    /\ SubSeq(pointer_input', 1, Len(pointer_input)) = pointer_input
PassthroughRan == pointer_input' # pointer_input /\ ~EventSent

Count(seq, x) == Cardinality({ k \in DOMAIN seq : seq[k] = x })

\* The positions, in a sequence of events, of the events that target a window.
WindowEvents(seq) == { k \in DOMAIN seq : seq[k].location.target.kind = "Window" }

\* The image nodes of the open panes that carry Active.
ActiveImages == { image_of(pane_root) : pane_root \in DOMAIN node_graph } \cap active

\* The location `location` relative to the top-left corner of image_id's
\* rectangle (centre = global translation, size = computed size), in the
\* texture image_id displays.
InImage(location, image_id) ==
    LET centre == ui_node[image_id].translation
        size == ui_node[image_id].size
    IN  [target |-> [kind |-> "Image", id |-> ui_image[image_id]],
         position |-> << location.position[1] - (centre[1] - size[1] \div 2),
                         location.position[2] - (centre[2] - size[2] \div 2) >>]

\* The duplicate of `event` for image_id: only the location differs.
Duplicate(event, image_id) ==
    [pointer_id |-> event.pointer_id, action |-> event.action,
     location |-> InImage(event.location, image_id)]

\* C1: a run of the passthrough sends, for every window-targeted event it
\* reads and every pane whose image node is Active, exactly one duplicate: an
\* event with the same pointer id and action whose target is the pane's image
\* and whose position is the original's minus the rect min of the image node.
C1_DuplicatePerEventAndPane ==
    [][ PassthroughRan =>
          \A k \in WindowEvents(pointer_input), image_id \in ActiveImages :
              Count(pointer_input', Duplicate(pointer_input[k], image_id))
                  = Count(pointer_input, pointer_input[k]) ]_vars

\* The mouse event at (10 px, 6 px) has been passed through to an Active pane
\* whose image node has its top-left corner at (3.75 px, 1 px).
C1_Witness ==
    \E k \in DOMAIN pointer_input, image_id \in ActiveImages :
        /\ ui_node[image_id] = [size |-> <<10, 16>>, translation |-> <<20, 12>>]
        /\ pointer_input[k] =
              [pointer_id |-> "Mouse", action |-> "Moved",
               location |-> [target |-> Image(ui_image[image_id]), position |-> <<25, 20>>]]

\* C5: a run of the passthrough sends only image-targeted events, each the
\* duplicate of a window-targeted event it read, at most one per such event
\* and pane; when it reads no window-targeted event (only events sent to
\* render targets, its own among them) it sends nothing and moves no pointer.
C5_ResentEventsAreIgnored ==
    [][ PassthroughRan =>
          /\ Len(pointer_input')
                <= Cardinality(WindowEvents(pointer_input)) * Cardinality(DOMAIN node_graph)
          /\ \A j \in DOMAIN pointer_input' :
                /\ pointer_input'[j].location.target.kind = "Image"
                /\ \E k \in WindowEvents(pointer_input) :
                      /\ pointer_input'[j].pointer_id = pointer_input[k].pointer_id
                      /\ pointer_input'[j].action = pointer_input[k].action
          /\ WindowEvents(pointer_input) = {} =>
                pointer_input' = <<>> /\ pointers' = pointers ]_vars

\* The mouse pointer has been relocated, so duplicates were sent, and a later
\* run has read them all with a pane Active and sent nothing.
C5_Witness ==
    /\ pointer_input = <<>>
    /\ pointers[1].location # None
    /\ ActiveImages # {}

\* C6: a run of the passthrough sends no event to the image of a pane whose
\* image node is not Active and relocates no pointer to it; if no pane is
\* Active the run sends nothing and leaves every PointerLocation as it was.
C6_InactiveViewportsSkipped ==
    [][ PassthroughRan =>
          /\ \A pane_root \in DOMAIN node_graph :
                image_of(pane_root) \notin active =>
                  LET target == Image(ui_image[image_of(pane_root)])
                  IN  /\ \A j \in DOMAIN pointer_input' :
                            pointer_input'[j].location.target # target
                      /\ \A k \in DOMAIN pointers :
                            pointers'[k] # pointers[k] =>
                                \A i \in DOMAIN pointers'[k].location :
                                    pointers'[k].location[i].target # target
          /\ ActiveImages = {} => pointer_input' = <<>> /\ pointers' = pointers ]_vars

\* Two panes are open, one Active and one not; the unread events and the mouse
\* pointer's location are in the Active pane's image, none in the other's.
C6_Witness ==
    \E p, q \in DOMAIN node_graph :
        /\ image_of(p) \in active
        /\ image_of(q) \notin active
        /\ pointer_input # <<>>
        /\ \A j \in DOMAIN pointer_input :
              pointer_input[j].location.target = Image(ui_image[image_of(p)])
        /\ pointers[1].location # None
        /\ pointers[1].location[1].target = Image(ui_image[image_of(p)])

\* C7: after a run of the passthrough with a pane Active, the PointerLocation
\* of a pointer entity whose id a window-targeted event read carries is the
\* relocated location of the last such event, which a re-sent event of that
\* pointer carries too; every other pointer entity is unchanged; an event
\* whose pointer id no pointer entity has is re-sent all the same.
C7_PointerRelocated ==
    [][ PassthroughRan =>
          /\ \A k \in DOMAIN pointers :
                LET mine == { i \in WindowEvents(pointer_input) :
                                pointer_input[i].pointer_id = pointers[k].id }
                    last == CHOOSE i \in mine : \A i2 \in mine : i2 <= i
                IN  IF mine = {} \/ ActiveImages = {}
                    THEN pointers'[k] = pointers[k]
                    ELSE /\ pointers'[k].id = pointers[k].id
                         /\ \E image_id \in ActiveImages :
                               pointers'[k].location
                                   = Some(InImage(pointer_input[last].location, image_id))
                         /\ \E j \in DOMAIN pointer_input' :
                               /\ pointer_input'[j].pointer_id = pointers[k].id
                               /\ Some(pointer_input'[j].location) = pointers'[k].location
          /\ \A i \in WindowEvents(pointer_input) :
                (\A k \in DOMAIN pointers : pointers[k].id # pointer_input[i].pointer_id) =>
                    \A image_id \in ActiveImages :
                        \E j \in DOMAIN pointer_input' :
                            pointer_input'[j] = Duplicate(pointer_input[i], image_id) ]_vars

\* One run has passed through a mouse event and an event of a touch that has
\* no pointer entity: the mouse pointer is in the pane's image at the
\* relocated position, the other pointer entity has not moved, and the
\* touch's event has been re-sent.
C7_Witness ==
    \E image_id \in ActiveImages :
        /\ pointers[1].id = "Mouse"
        /\ pointers[1].location
              = Some([target |-> Image(ui_image[image_id]), position |-> <<25, 20>>])
        /\ pointers[2].location = None
        /\ \E j \in DOMAIN pointer_input :
              /\ pointer_input[j].pointer_id = "Touch1"
              /\ pointer_input[j].location.target = Image(ui_image[image_id])

====
